---- MODULE Spec2Model ----
(***************************************************************************)
(* blockstatd: the collection loop (MainClass._do_metrics), the per-device *)
(* collector (BlockStat), the two formatters and the two send buffers      *)
(* (StdoutBuffer, GraphiteBuffer) of src/blockstatd.py.                    *)
(***************************************************************************)
EXTENDS Integers, Sequences, FiniteSets, TLC

(* ---------------------------------------------------------------- bounds *)
NumBlocks == 2          \* tracked block devices, MainClass._blocks
MaxCycles == 2          \* iterations of the while True loop that are explored
Interval == 1           \* MainClass._interval, seconds slept per cycle
MaxPad == 2             \* longest run of whitespace around a field
MaxRecord == 2          \* distinct counter sets a parsed record can show

(* ------------------------------------------------------------- constants *)
MaxAttempts == 3        \* range(0, 3) in GraphiteBuffer.flush
NumStatTypes == 11      \* members of StatType

Blocks == 1..NumBlocks
StatType == 0..(NumStatTypes - 1)
StatName == <<"read_io", "read_merges", "read_sectors", "read_ticks",
              "write_io", "write_merges", "write_sectors", "write_ticks",
              "in_flight", "io_ticks", "time_in_queue">>
Hostname == <<"h", "example", "org">>

(* ------------------------------------------------ text of a stat record *)
\* A record text is a sequence of tokens: a run of digits (an integer), a
\* run of other non-blank characters (junk), or one whitespace character.
IntTok(n) == <<"int", n>>
JunkTok == <<"junk", 0>>
EmptyTok == <<"empty", 0>>
SP == <<"ws", 0>>
LF == <<"ws", 1>>
IsWs(t) == t[1] = "ws"

RECURSIVE lstrip(_)
lstrip(s) == IF s # <<>> /\ IsWs(Head(s)) THEN lstrip(Tail(s)) ELSE s

RECURSIVE rstrip(_)
rstrip(s) ==
    IF s # <<>> /\ IsWs(s[Len(s)]) THEN rstrip(SubSeq(s, 1, Len(s) - 1)) ELSE s

\* re_sub("\s+", " ", s): every maximal run of whitespace becomes one space
RECURSIVE re_sub_ws(_)
re_sub_ws(s) ==
    IF s = <<>> THEN <<>>
    ELSE IF IsWs(Head(s)) THEN <<SP>> \o re_sub_ws(lstrip(s))
    ELSE <<Head(s)>> \o re_sub_ws(Tail(s))

\* str.split(" "): the pieces between single spaces; a piece holds at most
\* one token here, an empty piece is the empty string
RECURSIVE split_sp(_, _)
split_sp(s, cur) ==
    IF s = <<>> THEN <<cur>>
    ELSE IF Head(s) = SP THEN <<cur>> \o split_sp(Tail(s), EmptyTok)
    ELSE split_sp(Tail(s), Head(s))

\* variant: the text is split without being stripped first
blockstat_map_nostrip(text) == split_sp(re_sub_ws(text), EmptyTok)

\* lines 247-249 and 256 of collect
blockstat_map(text) == split_sp(re_sub_ws(rstrip(lstrip(text))), EmptyTok)

\* int(field) succeeds exactly on a run of digits
IntOk(f) == f[1] = "int"
IntVal(f) == f[2]

(* ------------------------------------------------------ ordered mapping *)
\* A dict is a sequence of <<key, value>> pairs in insertion order.
DictKeys(d) == {d[i][1] : i \in 1..Len(d)}
DictSet(d, k, v) ==
    IF k \in DictKeys(d)
    THEN [i \in 1..Len(d) |-> IF d[i][1] = k THEN <<k, v>> ELSE d[i]]
    ELSE Append(d, <<k, v>>)

\* variant: a field that is no integer is skipped instead of raising
RECURSIVE AssignStats_skip(_, _, _)
AssignStats_skip(d, fields, st) ==
    IF st >= NumStatTypes THEN [stats |-> d, exc |-> "none"]
    ELSE IF st + 1 > Len(fields) THEN [stats |-> d, exc |-> "IndexError"]
    ELSE IF ~IntOk(fields[st + 1]) THEN AssignStats_skip(d, fields, st + 1)
    ELSE AssignStats_skip(DictSet(d, st, IntVal(fields[st + 1])), fields, st + 1)

\* lines 258-263 of collect: assign the stat types in order until one fails
RECURSIVE AssignStats(_, _, _)
AssignStats(d, fields, st) ==
    IF st >= NumStatTypes THEN [stats |-> d, exc |-> "none"]
    ELSE IF st + 1 > Len(fields) THEN [stats |-> d, exc |-> "IndexError"]
    ELSE IF ~IntOk(fields[st + 1]) THEN [stats |-> d, exc |-> "ValueError"]
    ELSE AssignStats(DictSet(d, st, IntVal(fields[st + 1])), fields, st + 1)

(* ------------------------------------------- what /sys/block/X/stat holds *)
FieldsOf(k) == [p \in 1..NumStatTypes |-> IntTok(100 * k + (p - 1))]
Garbled(fs, p) == [q \in 1..Len(fs) |-> IF q = p + 1 THEN JunkTok ELSE fs[q]]

RECURSIVE Layout(_, _)
Layout(fs, wide) ==
    IF fs = <<>> THEN <<LF>>
    ELSE (IF wide THEN <<SP, SP>> ELSE <<>>) \o <<Head(fs)>>
         \o (IF Len(fs) > 1 /\ ~wide THEN <<SP>> ELSE <<>>)
         \o Layout(Tail(fs), wide)

\* a run of n whitespace characters, blanks and line ends alternating
Ws(w, n) == [i \in 1..n |-> IF i % 2 = 1 THEN w ELSE IF w = SP THEN LF ELSE SP]

RECURSIVE Spaced(_, _, _)
Spaced(fs, w, sep) ==
    IF fs = <<>> THEN <<>>
    ELSE IF Len(fs) = 1 THEN <<fs[1]>>
    ELSE <<fs[1]>> \o Ws(w, sep) \o Spaced(Tail(fs), w, sep)

PadText(fs, w, lead, sep, trail) == Ws(w, lead) \o Spaced(fs, w, sep) \o Ws(w, trail)

\* the counters of a record, as integers
Counters(k) == [p \in 1..NumStatTypes |-> 100 * k + (p - 1)]
Descending == [p \in 1..NumStatTypes |-> NumStatTypes - p]
CounterSets == {Counters(k) : k \in 0..MaxRecord} \cup {Descending}
TokensOf(cs) == [p \in 1..Len(cs) |-> IntTok(cs[p])]

\* a record parse: 11 integers laid out with any whitespace, and what
\* self._stats held before
ParseInputs ==
    {[fields |-> cs,
      text |-> PadText(TokensOf(cs), w, lead, sep, trail),
      prior |-> pr,
      done |-> FALSE,
      result |-> [stats |-> <<>>, time |-> 0, exc |-> "none"]] :
        cs \in CounterSets, w \in {SP, LF}, lead \in 0..MaxPad,
        sep \in 1..MaxPad, trail \in 0..MaxPad,
        pr \in {<<>>, [p \in 1..NumStatTypes |-> <<p - 1, 7>>]}}

ValidTexts == {Layout(FieldsOf(1), w) : w \in BOOLEAN}
GarbledTexts == {Layout(Garbled(FieldsOf(1), p), FALSE) : p \in {0, 4, 10}}
ShortTexts == {Layout(SubSeq(FieldsOf(1), 1, n), TRUE) : n \in {0, 7}}
RecordTexts == ValidTexts \cup GarbledTexts \cup ShortTexts

(* ------------------------------------------------------- ASendBuffer *)
\* _messages is a text: a sequence of tokens, each a formatted line or the
\* newline character.
NL == <<"\n">>

clear == <<>>

\* variant: the line replaces the buffer instead of extending it
put_assign(messages, message) == <<message>>

\* variant: the separator is added also in front of the first line
put_always_nl(messages, message) == messages \o <<NL, message>>

put(messages, message) ==
    (IF messages # <<>> THEN messages \o <<NL>> ELSE messages) \o <<message>>

get_messages(messages) == messages

\* variant: the text goes out without the newline added to it
Payload_bare(messages) == messages

\* the bytes handed to sendall (line 175) and the text print() writes (147)
Payload(messages) == get_messages(messages) \o <<NL>>

(* ---------------------------------------------------------- formatters *)
ShortHostname == Head(Hostname)

\* "{0}".format(the_time): _time is int(time.time()) or the float 0.0
TimeText(the_time) == IF the_time = 0 THEN <<"float", 0>> ELSE <<"int", the_time>>

\* fromtimestamp(the_time).strftime(...) drops nothing at a whole second
PrettyTime(the_time) == <<"local", the_time>>

\* "{0} {2}[{1}]: {3}".format(pretty_time, stat_type.name, block, str(stat))
HumanLine(the_time, stat_type, block, stat) ==
    <<"human", PrettyTime(the_time), block, StatName[stat_type + 1], stat>>

\* "blockstat.{4}.{2}.{1} {3} {0}".format(the_time, name, block, stat, host)
GraphiteLine(the_time, stat_type, block, stat) ==
    <<"blockstat", ShortHostname, block, StatName[stat_type + 1], stat,
      TimeText(the_time)>>

HumanOutput_send(messages, the_time, stat_type, block, stat) ==
    put(messages, HumanLine(the_time, stat_type, block, stat))

GraphiteOutput_send(messages, the_time, stat_type, block, stat) ==
    put(messages, GraphiteLine(the_time, stat_type, block, stat))

Output_send(form, messages, the_time, stat_type, block, stat) ==
    IF form = "human"
    THEN HumanOutput_send(messages, the_time, stat_type, block, stat)
    ELSE GraphiteOutput_send(messages, the_time, stat_type, block, stat)

\* BlockStat.sendto: one send per item of _stats, in the dict's order
RECURSIVE SendItems(_, _, _, _, _)
SendItems(form, messages, the_time, block, items) ==
    IF items = <<>> THEN messages
    ELSE SendItems(form,
                   Output_send(form, messages, the_time, Head(items)[1], block,
                               Head(items)[2]),
                   the_time, block, Tail(items))

\* the lines of a text, in order
RECURSIVE LinesOf(_)
LinesOf(text) ==
    IF text = <<>> THEN <<>>
    ELSE IF Head(text) = NL THEN LinesOf(Tail(text))
    ELSE <<Head(text)>> \o LinesOf(Tail(text))

RECURSIVE Flatten(_)
Flatten(texts) ==
    IF texts = <<>> THEN <<>> ELSE LinesOf(Head(texts)) \o Flatten(Tail(texts))

(* ----------------------------------------------------------------- state *)
VARIABLES
    outform,      \* MainClass._outform: "human" or "graphite"
    pc,           \* position of the process in _do_metrics / flush
    idx,          \* position of the running for loop in blockstats
    cycle,        \* number of the running iteration of while True
    now,          \* int(time.time())
    nblocks,      \* number of devices in MainClass._blocks
    healed,       \* the server accepts every connect and send from now on
    _stats,       \* BlockStat._stats of every device
    _time,        \* BlockStat._time of every device
    _messages,    \* ASendBuffer._messages
    sock,         \* graphite_server: "none", "open", "connected", "closed"
    attempt,      \* loop variable of flush
    exc,          \* exception that left _do_metrics, "none" while running
    transport,    \* what the server does at each attempt of this flush
    attemptLog,   \* what each attempt of this flush did
    nsock,        \* number of socket.socket() calls so far
    before,       \* _messages when the running flush was called
    wire,         \* payloads the server received in full
    stdout,       \* texts written to standard output
    allPut,       \* every line handed to put, in order
    readResult,   \* outcome of collect for each device in this cycle
    contributed,  \* lines each device's sendto put in this cycle
    allValid,     \* every record read so far was readable and well formed
    trace,        \* calls made by _do_metrics, in order
    argv,         \* the options on the command line
    _server,      \* MainClass._server
    _server_port, \* MainClass._server_port
    _daemonize,   \* MainClass._daemonize
    _pidfile,     \* MainClass._pidfile
    env0,         \* what the PID file path was like when the process started
    fs_pid,       \* pid held by the file at the PID file path, 0 when absent
    self,         \* pid of the process that pc describes
    status,       \* exit status of every process, or Running, or NoProc
    exitBy,       \* what ended the process that pc describes
    handler,      \* processes that installed graceful_stop for SIGINT
    nfork,        \* number of os.fork() calls
    removed,      \* pid held by the PID file when graceful_stop removed it
    buffer,       \* class of the send buffer that main constructed
    unit          \* input and result of one record parse

vars == <<outform, pc, idx, cycle, now, nblocks, healed, _stats, _time, _messages, sock,
          attempt, exc, transport, attemptLog, nsock, before, wire, stdout, allPut,
          readResult, contributed, allValid, trace, argv, _server,
          _server_port, _daemonize, _pidfile, env0, fs_pid, self, status,
          exitBy, handler, nfork, removed, buffer, unit>>

envVars == <<outform, cycle, now, nblocks, healed>>
devVars == <<_stats, _time, readResult>>
netVars == <<sock, attempt, transport, attemptLog, nsock, before, wire>>
optVars == <<argv, _server, _server_port, _daemonize, _pidfile, buffer>>
procVars == <<env0, fs_pid, self, handler, nfork, removed>>
exitVars == <<status, exitBy>>
restVars == <<optVars, procVars, exitVars, unit>>

\* process ids: the process that was started, its fork child, another
\* instance of the daemon
ParentPid == 1
ChildPid == 2
OtherPid == 3
Running == 0 - 1
NoProc == 0 - 2
DefaultPort == 2003
PidPath == "/run/blockstatd.pid"
NoneTok == <<"None", 0>>
NoArgv == [output |-> "None", server |-> <<NoneTok>>, pidfile |-> "None",
           daemonize |-> FALSE, blocks |-> <<"sda">>]
NoUnit == [fields |-> <<>>, text |-> <<>>, prior |-> <<>>, done |-> TRUE,
           result |-> [stats |-> <<>>, time |-> 0, exc |-> "none"]]

\* the process as it enters _do_metrics: started in the foreground without
\* a PID file, graceful_stop installed
LoopEntry ==
    /\ argv = NoArgv
    /\ _server = (IF outform = "graphite" THEN "host" ELSE "None")
    /\ _server_port = IntTok(DefaultPort)
    /\ _daemonize = FALSE
    /\ _pidfile = "None"
    /\ buffer = (IF outform = "graphite" THEN "GraphiteBuffer" ELSE "StdoutBuffer")
    /\ env0 = "ok"
    /\ fs_pid = 0
    /\ self = ParentPid
    /\ status = [p \in {ParentPid, ChildPid} |->
                    IF p = ParentPid THEN Running ELSE NoProc]
    /\ exitBy = "none"
    /\ handler = {ParentPid}
    /\ nfork = 0
    /\ removed = 0

\* the objects as main constructs them (lines 121-122, 234-237, 339-342)
Fresh ==
    /\ idx = 1
    /\ cycle = 1
    /\ now = 1
    /\ _stats = [b \in Blocks |-> <<>>]
    /\ _time = [b \in Blocks |-> 0]
    /\ _messages = clear
    /\ sock = "none"
    /\ attempt = 0
    /\ exc = "none"
    /\ transport = <<>>
    /\ attemptLog = <<>>
    /\ nsock = 0
    /\ before = <<>>
    /\ wire = <<>>
    /\ stdout = <<>>
    /\ allPut = <<>>
    /\ readResult = [b \in Blocks |-> "none"]
    /\ contributed = [b \in Blocks |-> 0]
    /\ allValid = TRUE
    /\ trace = <<>>

Init ==
    /\ outform \in {"human", "graphite"}
    /\ nblocks \in 1..NumBlocks
    /\ healed \in BOOLEAN
    /\ pc = "collect"
    /\ Fresh
    /\ LoopEntry
    /\ unit = NoUnit

(* --------------------------------------------------- BlockStat.collect *)
\* what open()/read() of the stat file gives in this cycle
Sources ==
    {[readable |-> FALSE, text |-> <<>>]}
        \cup {[readable |-> TRUE, text |-> t] : t \in RecordTexts}

SourceKind(src) ==
    IF ~src.readable THEN "unreadable"
    ELSE IF src.text \in ValidTexts THEN "valid"
    ELSE IF src.text \in GarbledTexts THEN "garbled"
    ELSE "short"

\* line 256: the positional fields of the text that was read
Fields(text) == blockstat_map(text)

\* lines 250-254: the assignment of line 251 binds a local name, the
\* attribute self._stats keeps what it held
collect_IOError(stats) == [stats |-> stats, time |-> 0, exc |-> "none"]

\* lines 243-263
collect_result(stats, t, src) ==
    IF ~src.readable THEN collect_IOError(stats)
    ELSE LET r == AssignStats(stats, Fields(src.text), 0)
         IN  [stats |-> r.stats, time |-> t, exc |-> r.exc]

(* --------------------------------------------- MainClass._do_metrics *)
\* variant: one loop that collects and formats device by device
AfterCollect_fused(i) == [pc |-> "sendto", idx |-> i]

\* lines 382-383: the first for loop, then the second one
AfterCollect(i) ==
    IF i < nblocks THEN [pc |-> "collect", idx |-> i + 1]
    ELSE [pc |-> "sendto", idx |-> 1]

\* lines 385-388: the second for loop, then flush
AfterSendto(i) ==
    IF i < nblocks THEN [pc |-> "sendto", idx |-> i + 1]
    ELSE [pc |-> "flush", idx |-> 1]

collect ==
    /\ pc = "collect"
    /\ \E src \in Sources :
        LET r == collect_result(_stats[idx], now, src)
            nxt == AfterCollect(idx)
        IN  /\ _stats' = [_stats EXCEPT ![idx] = r.stats]
            /\ _time' = [_time EXCEPT ![idx] = r.time]
            /\ readResult' = [readResult EXCEPT ![idx] = SourceKind(src)]
            /\ allValid' = (allValid /\ SourceKind(src) = "valid")
            /\ exc' = r.exc
            /\ status' = IF r.exc = "none" THEN status
                          ELSE [status EXCEPT ![self] = 1]
            /\ exitBy' = IF r.exc = "none" THEN exitBy ELSE "exception"
            /\ pc' = IF r.exc = "none" THEN nxt.pc ELSE "raised"
            /\ idx' = IF r.exc = "none" THEN nxt.idx ELSE idx
    /\ trace' = Append(trace, <<"collect", idx>>)
    /\ UNCHANGED <<envVars, netVars, _messages, stdout, allPut, contributed,
                   optVars, procVars, unit>>

sendto ==
    /\ pc = "sendto"
    /\ LET items == _stats[idx]
           nxt == AfterSendto(idx)
       IN  /\ _messages' = SendItems(outform, _messages, _time[idx], idx, items)
           /\ allPut' = allPut \o
                [k \in 1..Len(items) |->
                    IF outform = "human"
                    THEN HumanLine(_time[idx], items[k][1], idx, items[k][2])
                    ELSE GraphiteLine(_time[idx], items[k][1], idx, items[k][2])]
           /\ contributed' = [contributed EXCEPT ![idx] = Len(items)]
           /\ pc' = nxt.pc
           /\ idx' = nxt.idx
    /\ trace' = Append(trace, <<"sendto", idx>>)
    /\ UNCHANGED <<allValid, restVars, envVars, devVars, netVars, exc, stdout>>

(* ------------------------------------------------- StdoutBuffer.flush *)
\* variant: flush without the clear of line 148
StdoutBuffer_flush_keep(messages) ==
    [out |-> Payload(messages), messages |-> messages]

\* lines 147-148: print(self._messages), then clear
StdoutBuffer_flush(messages) ==
    [out |-> Payload(messages), messages |-> clear]

flush_stdout ==
    /\ pc = "flush"
    /\ outform = "human"
    /\ stdout' = Append(stdout, StdoutBuffer_flush(_messages).out)
    /\ _messages' = StdoutBuffer_flush(_messages).messages
    /\ pc' = "sleep"
    /\ trace' = trace \o << <<"flush", 0>>, <<"return", 0>> >>
    /\ UNCHANGED <<allValid, restVars, envVars, devVars, netVars, idx, exc, allPut, contributed>>

(* ----------------------------------------------- GraphiteBuffer.flush *)
Dispositions == {"ok", "connfail", "sendfail"}

\* what the server may do at an attempt; a connect on a closed socket never
\* reaches the server, which is then taken as willing
Offered(h, s) == IF h \/ s = "closed" THEN {"ok"} ELSE Dispositions

\* variant: close has no effect
close_noop(s) == s

\* socket.close(); closing a closed socket is allowed
close(s) == "closed"

\* line 169: connect raises on a closed socket (EBADF) and on a connected
\* one (EISCONN), otherwise the server decides
connect(s, disp) ==
    IF s # "open" THEN "fail"
    ELSE IF disp = "connfail" THEN "fail"
    ELSE "ok"

\* lines 167, 172, 181: continue, until range(0, 3) is used up
NextAttempt(a) ==
    IF a + 1 < MaxAttempts THEN [pc |-> "connect", attempt |-> a + 1]
    ELSE [pc |-> "close", attempt |-> a + 1]

\* variant: the buffer is cleared before the send is known to have worked
sendall_clearfirst(messages, s, disp) ==
    IF disp = "sendfail"
    THEN [ok |-> FALSE, messages |-> clear, sock |-> "closed"]
    ELSE [ok |-> TRUE, messages |-> clear, sock |-> s]

\* lines 175-181: the buffer and the socket after sendall
sendall(messages, s, disp) ==
    IF disp = "sendfail"
    THEN [ok |-> FALSE, messages |-> messages, sock |-> close(s)]
    ELSE [ok |-> TRUE, messages |-> clear, sock |-> s]

\* variant: no break after a successful send
AfterSend_nobreak(ok, a) ==
    IF a + 1 < MaxAttempts THEN [pc |-> "connect", attempt |-> a + 1]
    ELSE [pc |-> "close", attempt |-> a + 1]

\* line 177: break on success, lines 179-181 otherwise
AfterSend(ok, a) == IF ok THEN [pc |-> "close", attempt |-> a] ELSE NextAttempt(a)

\* variant: one socket made with the buffer and used by every flush call
socket_once(s) == IF s = "none" THEN "open" ELSE s

\* line 163: socket.socket(), a new unconnected socket for this call
socket_socket(s) == "open"

flush_begin ==
    /\ pc = "flush"
    /\ outform = "graphite"
    /\ sock' = socket_socket(sock)
    /\ nsock' = nsock + 1
    /\ attempt' = 0
    /\ before' = _messages
    /\ transport' = <<>>
    /\ attemptLog' = <<>>
    /\ pc' = "connect"
    /\ trace' = Append(trace, <<"flush", 0>>)
    /\ UNCHANGED <<allValid, restVars, envVars, devVars, idx, exc, _messages, wire, stdout, allPut,
                   contributed>>

flush_connect ==
    /\ pc = "connect"
    /\ \E disp \in Offered(healed, sock) :
        LET r == connect(sock, disp)
            nxt == NextAttempt(attempt)
        IN  /\ transport' = Append(transport, disp)
            /\ attemptLog' = Append(attemptLog,
                    [sock |-> nsock, pre |-> sock, conn |-> r, send |-> "none",
                     sent |-> <<>>])
            /\ sock' = IF r = "ok" THEN "connected" ELSE sock
            /\ pc' = IF r = "ok" THEN "sendall" ELSE nxt.pc
            /\ attempt' = IF r = "ok" THEN attempt ELSE nxt.attempt
    /\ UNCHANGED <<allValid, restVars, envVars, devVars, idx, exc, _messages, nsock, before, wire,
                   stdout, allPut, contributed, trace>>

flush_sendall ==
    /\ pc = "sendall"
    /\ LET r == sendall(_messages, sock, transport[attempt + 1])
           nxt == AfterSend(r.ok, attempt)
       IN  /\ wire' = IF r.ok THEN Append(wire, Payload(_messages)) ELSE wire
           /\ _messages' = r.messages
           /\ sock' = r.sock
           /\ attemptLog' = [attemptLog EXCEPT ![Len(attemptLog)] =
                                [@ EXCEPT !.send = IF r.ok THEN "ok" ELSE "fail",
                                          !.sent = Payload(_messages)]]
           /\ pc' = nxt.pc
           /\ attempt' = nxt.attempt
    /\ UNCHANGED <<allValid, restVars, envVars, devVars, idx, exc, transport, nsock, before,
                   stdout, allPut, contributed, trace>>

flush_close ==
    /\ pc = "close"
    /\ sock' = close(sock)
    /\ pc' = "sleep"
    /\ trace' = Append(trace, <<"return", 0>>)
    /\ UNCHANGED <<allValid, restVars, envVars, devVars, idx, exc, _messages, attempt, transport,
                   attemptLog, nsock, before, wire, stdout, allPut, contributed>>

\* line 390, and the next iteration of while True
sleep ==
    /\ pc = "sleep"
    /\ cycle < MaxCycles
    /\ now' = now + Interval
    /\ healed' \in (IF healed THEN {TRUE} ELSE BOOLEAN)
    /\ cycle' = cycle + 1
    /\ pc' = "collect"
    /\ idx' = 1
    /\ readResult' = [b \in Blocks |-> "none"]
    /\ contributed' = [b \in Blocks |-> 0]
    /\ transport' = <<>>
    /\ attemptLog' = <<>>
    /\ trace' = Append(trace, <<"sleep", 0>>)
    /\ UNCHANGED <<allValid, restVars, outform, nblocks, _stats, _time, _messages, sock, attempt,
                   exc, nsock, before, wire, stdout, allPut>>

Next ==
    \/ collect
    \/ sendto
    \/ flush_stdout
    \/ flush_begin
    \/ flush_connect
    \/ flush_sendall
    \/ flush_close
    \/ sleep

Spec == Init /\ [][Next]_vars

(* -------------------------------------------------------- the options *)
\* the text of a --server argument, as the pieces ":" can separate
Str(h) == <<"str", h>>
Colon == <<"colon", 0>>
ServerTexts == {<<Str("host")>>,
                <<Str("host"), Colon, IntTok(2004)>>,
                <<Str("host"), Colon, JunkTok>>,
                <<>>,
                <<Colon, IntTok(2004)>>}

\* a command line: the value of each option, None where it is not given,
\* and the positional arguments
Argvs ==
    {[output |-> o, server |-> sv, pidfile |-> pf, daemonize |-> d,
      blocks |-> bl] :
        o \in {"None", "human", "graphite", "pretty"},
        sv \in {<<NoneTok>>} \cup ServerTexts,
        pf \in {"None", PidPath, "blockstatd.pid"},
        d \in BOOLEAN,
        bl \in {<<>>, <<"sda">>, <<"..">>}}

\* line 417
IllegalBlock(a) == a \in {"", ".", "..", "a/b"}
\* line 432
IsAbsolute(path) == path = PidPath
\* line 438
OutForm == {"human", "graphite"}

\* a.rsplit(":", 1), line 444
LastColon(text) ==
    LET at == {i \in 1..Len(text) : text[i] = Colon}
    IN  IF at = {} THEN 0 ELSE CHOOSE i \in at : \A j \in at : j <= i
rsplit(text) ==
    IF LastColon(text) = 0 THEN <<text>>
    ELSE <<SubSeq(text, 1, LastColon(text) - 1),
           SubSeq(text, LastColon(text) + 1, Len(text))>>
\* the string a piece of the text is
StrOf(piece) == IF piece = <<>> THEN "" ELSE piece[1][2]
\* int() of a piece of the text, line 447
PortOk(piece) == Len(piece) = 1 /\ IntOk(piece[1])

\* the exit(2) _parse_opts ends with, "none" when it returns
OptError(a) ==
    IF \E i \in 1..Len(a.blocks) : IllegalBlock(a.blocks[i]) THEN "opt_block"
    ELSE IF a.pidfile # "None" /\ ~IsAbsolute(a.pidfile) THEN "opt_pidfile"
    ELSE IF a.output \notin {"None"} \cup OutForm THEN "opt_output"
    ELSE IF /\ a.server # <<NoneTok>>
            /\ Len(rsplit(a.server)) > 1
            /\ ~PortOk(rsplit(a.server)[2]) THEN "opt_port"
    ELSE "none"

exit(code, by) ==
    /\ pc' = "exited"
    /\ status' = [status EXCEPT ![self] = code]
    /\ exitBy' = by

memVars == <<idx, cycle, now, healed, devVars, netVars, _messages, exc, stdout,
             allPut, contributed, allValid, trace, unit>>

_parse_opts ==
    /\ pc = "parse_opts"
    /\ IF OptError(argv) # "none"
       THEN /\ exit(2, OptError(argv))
            /\ UNCHANGED <<nblocks, _pidfile, outform, _server, _server_port,
                           _daemonize>>
       ELSE /\ nblocks' = Cardinality({argv.blocks[i] : i \in 1..Len(argv.blocks)})
            /\ _pidfile' = argv.pidfile
            /\ outform' = argv.output
            /\ _server' = (IF argv.server = <<NoneTok>> THEN "None"
                           ELSE StrOf(rsplit(argv.server)[1]))
            /\ _server_port' =
                   (IF argv.server # <<NoneTok>> /\ Len(rsplit(argv.server)) > 1
                    THEN IntTok(IntVal(rsplit(argv.server)[2][1]))
                    ELSE NoneTok)
            /\ _daemonize' = argv.daemonize
            /\ pc' = "set_default_opts"
            /\ UNCHANGED exitVars
    /\ UNCHANGED <<memVars, argv, buffer, procVars>>

\* variant: the port is left as the command line gave it
DefaultPortOf_keep(port) == port
\* lines 496-497
DefaultPortOf(port) == IF port = NoneTok THEN IntTok(DefaultPort) ELSE port
\* lines 499-503
DefaultOutform(o, server) ==
    IF o = "None" THEN (IF server = "None" THEN "human" ELSE "graphite") ELSE o

_set_default_opts ==
    /\ pc = "set_default_opts"
    /\ _server_port' = DefaultPortOf(_server_port)
    /\ outform' = DefaultOutform(outform, _server)
    /\ IF outform = "graphite" /\ _server = "None" THEN exit(2, "no_server")
       ELSE IF nblocks = 0 THEN exit(2, "no_blocks")
       ELSE pc' = "construct" /\ UNCHANGED exitVars
    /\ UNCHANGED <<memVars, nblocks, argv, _server, _daemonize, _pidfile,
                   buffer, procVars>>

\* lines 331-342 of main
construct ==
    /\ pc = "construct"
    /\ buffer' = (IF outform = "human" THEN "StdoutBuffer" ELSE "GraphiteBuffer")
    /\ pc' = "fork"
    /\ UNCHANGED <<memVars, outform, nblocks, argv, _server, _server_port,
                   _daemonize, _pidfile, procVars, exitVars>>

(* ------------------------------------------------------------ startup *)
\* what os.fork() returns in process p
ForkReturn(p) == IF p = ParentPid THEN ChildPid ELSE 0
\* variant: the process that fork gives a pid to goes on
Enters_parent(d, ret) == ~d \/ ret # 0
\* line 353, in a process where os.fork() would return or has returned ret
Enters(d, ret) == ~d \/ ret = 0

main_fork ==
    /\ pc = "fork"
    /\ LET procs == IF _daemonize THEN {ParentPid, ChildPid} ELSE {ParentPid}
           in == {p \in procs : Enters(_daemonize, ForkReturn(p))}
       IN  /\ nfork' = nfork + (IF _daemonize THEN 1 ELSE 0)
           /\ status' = [p \in {ParentPid, ChildPid} |->
                            IF p \notin procs THEN NoProc
                            ELSE IF p \in in THEN Running ELSE 0]
           /\ self' = CHOOSE p \in in : TRUE
    /\ pc' = "signal"
    /\ UNCHANGED <<memVars, outform, nblocks, optVars, env0, fs_pid, handler,
                   removed, exitBy>>

\* line 354
main_signal ==
    /\ pc = "signal"
    /\ handler' = handler \cup {self}
    /\ pc' = (IF _pidfile # "None" THEN "pid_check" ELSE "collect")
    /\ UNCHANGED <<memVars, outform, nblocks, optVars, env0, fs_pid, self,
                   nfork, removed, exitVars>>

\* variant: the PID file is written without being looked for
PidCheck_none(env, pid) == "none"
\* lines 357-362: "none" when neither exit is taken
PidCheck(env, pid) ==
    IF pid # 0 THEN "pid_exists"
    ELSE IF env = "nodir" THEN "pid_dir"
    ELSE "none"

main_pid_check ==
    /\ pc = "pid_check"
    /\ IF PidCheck(env0, fs_pid) # "none"
       THEN exit(1, PidCheck(env0, fs_pid))
       ELSE pc' = "pid_write" /\ UNCHANGED exitVars
    /\ UNCHANGED <<memVars, outform, nblocks, optVars, procVars>>

\* lines 364-369
main_pid_write ==
    /\ pc = "pid_write"
    /\ IF env0 \in {"nodir", "readonly"}
       THEN exit(1, "pid_write") /\ UNCHANGED fs_pid
       ELSE fs_pid' = self /\ pc' = "collect" /\ UNCHANGED exitVars
    /\ UNCHANGED <<memVars, outform, nblocks, optVars, env0, self, handler,
                   nfork, removed>>

\* lines 344-351, run when SIGINT reaches a process that installed it
graceful_stop ==
    /\ self \in handler
    /\ status[self] = Running
    /\ IF _pidfile # "None" /\ fs_pid = 0
       THEN exit(1, "FileNotFoundError") /\ UNCHANGED <<fs_pid, removed>>
       ELSE IF _pidfile # "None"
       THEN fs_pid' = 0 /\ removed' = fs_pid /\ exit(0, "SIGINT")
       ELSE exit(0, "SIGINT") /\ UNCHANGED <<fs_pid, removed>>
    /\ UNCHANGED <<memVars, outform, nblocks, optVars, env0, self, handler,
                   nfork>>

\* the process as it is started: nothing parsed, and the PID file path
\* free, taken by another instance, or not writable
MainInit ==
    /\ pc = "parse_opts"
    /\ Fresh
    /\ healed = TRUE
    /\ unit = NoUnit
    /\ argv \in Argvs
    /\ outform = "None"
    /\ nblocks = 0
    /\ _server = "None"
    /\ _server_port = NoneTok
    /\ _daemonize = FALSE
    /\ _pidfile = "None"
    /\ buffer = "None"
    /\ env0 \in (IF argv.pidfile = PidPath
                 THEN {"ok", "exists", "nodir", "readonly"} ELSE {"ok"})
    /\ fs_pid = (IF env0 = "exists" THEN OtherPid ELSE 0)
    /\ self = ParentPid
    /\ status = [p \in {ParentPid, ChildPid} |->
                    IF p = ParentPid THEN Running ELSE NoProc]
    /\ exitBy = "none"
    /\ handler = {}
    /\ nfork = 0
    /\ removed = 0

MainNext ==
    \/ _parse_opts
    \/ _set_default_opts
    \/ construct
    \/ main_fork
    \/ main_signal
    \/ main_pid_check
    \/ main_pid_write
    \/ graceful_stop
    \/ collect
    \/ sendto
    \/ flush_stdout
    \/ flush_begin
    \/ flush_connect
    \/ flush_sendall
    \/ flush_close
    \/ sleep

MainSpec == MainInit /\ [][MainNext]_vars

(* ------------------------------------------------ one record, parsed *)
ParseInit ==
    /\ outform = "human"
    /\ nblocks = 1
    /\ healed = TRUE
    /\ pc = "unit"
    /\ Fresh
    /\ LoopEntry
    /\ unit \in ParseInputs

\* lines 243-263 on a readable record
parse_record ==
    /\ pc = "unit"
    /\ ~unit.done
    /\ unit' = [unit EXCEPT
                    !.done = TRUE,
                    !.result = collect_result(unit.prior, now,
                                   [readable |-> TRUE, text |-> unit.text])]
    /\ UNCHANGED <<envVars, devVars, netVars, optVars, procVars, exitVars, pc,
                   idx, _messages, exc, stdout, allPut, contributed, allValid,
                   trace>>

ParseNext == parse_record

ParseSpec == ParseInit /\ [][ParseNext]_vars

\* one device; the process is one thread that always goes on to its next
\* statement
LiveInit == Init /\ nblocks = 1

LiveSpec == LiveInit /\ [][Next]_vars /\ WF_vars(Next)

TypeOK ==
    /\ outform \in {"human", "graphite"}
    /\ pc \in {"collect", "sendto", "flush", "connect", "sendall", "close",
               "sleep", "raised"}
    /\ idx \in Blocks
    /\ cycle \in 1..MaxCycles
    /\ sock \in {"none", "open", "connected", "closed"}
    /\ attempt \in 0..MaxAttempts
    /\ exc \in {"none", "ValueError", "IndexError"}

(* ============================================================ claims *)
InFlush == pc \in {"connect", "sendall", "close"}

AttemptFailed(e) == e.conn = "fail" \/ e.send = "fail"

AllAttemptsFailed ==
    /\ Len(attemptLog) = MaxAttempts
    /\ \A i \in 1..Len(attemptLog) : AttemptFailed(attemptLog[i])

\* C1: when each of the 3 attempts of a networked flush has failed, at
\* connect or at send, flush goes on to its end without raising and the
\* buffer holds exactly what it held when flush was called.
C1_AllAttemptsFailKeepBuffer ==
    (outform = "graphite" /\ AllAttemptsFailed)
        => /\ exc = "none"
           /\ pc \in {"close", "sleep"}
           /\ _messages = before

C1_Witness ==
    /\ pc = "sleep"
    /\ AllAttemptsFailed
    /\ _messages # <<>>
    /\ attemptLog[1].conn = "fail"
    /\ attemptLog[2].send = "fail"

\* C2: a server that fails attempts 1 and 2 (at connect or at send) and
\* accepts attempt 3 gets the buffer: when flush has returned the buffer is
\* empty and 3 connection attempts were made, the third one delivering.
C2_LateSuccessClears ==
    (/\ outform = "graphite"
     /\ pc = "sleep"
     /\ Len(transport) = MaxAttempts
     /\ transport[1] # "ok"
     /\ transport[2] # "ok"
     /\ transport[3] = "ok")
        => /\ _messages = clear
           /\ Len(attemptLog) = 3
           /\ attemptLog[3].pre = "open"
           /\ attemptLog[3].send = "ok"

\* C3: a flush makes at most 3 attempts, and a successful send on attempt k
\* is the last thing the loop does: k connects were made, one send
\* succeeded, it carried the buffer as it was at the call, and the buffer is
\* empty.
C3_BoundedEarlyExit ==
    /\ Len(attemptLog) <= MaxAttempts
    /\ \A k \in 1..Len(attemptLog) :
        attemptLog[k].send = "ok"
            => /\ k = Len(attemptLog)
               /\ Len(transport) = k
               /\ Cardinality({i \in 1..Len(attemptLog) :
                                   attemptLog[i].send = "ok"}) = 1
               /\ pc \in {"close", "sleep"}
               /\ _messages = clear
               /\ wire # <<>>
               /\ wire[Len(wire)] = Payload(before)

C3_Witness ==
    /\ pc = "sleep"
    /\ Len(attemptLog) = 2
    /\ attemptLog[1].conn = "fail"
    /\ attemptLog[2].send = "ok"
    /\ before # <<>>

\* C4: every attempt of a flush connects on a socket of its own that is
\* open: no two attempts share a socket and none uses a closed one.
C4_FreshSocketPerAttempt ==
    \A i \in 1..Len(attemptLog) :
        /\ attemptLog[i].pre = "open"
        /\ \A j \in 1..Len(attemptLog) :
            j # i => attemptLog[j].sock # attemptLog[i].sock

\* C5: outside a running flush no socket is open: the socket a flush
\* created is closed when it returns, on success and on failure alike.
C5_SocketReleased ==
    ~InFlush => sock \in {"none", "closed"}

C5_Witness ==
    /\ pc = "sleep"
    /\ sock = "closed"
    /\ Len(attemptLog) = MaxAttempts
    /\ attemptLog[1].conn = "fail"
    /\ attemptLog[2].send = "fail"
    /\ attemptLog[3].pre = "closed"

\* C6: a device whose collect returned in this cycle has either all eleven
\* values and a positive time, or no value and time 0.
SampleFull(b) == DictKeys(_stats[b]) = StatType /\ _time[b] > 0
SampleUnavailable(b) == _stats[b] = <<>> /\ _time[b] = 0

C6_SampleInvariant ==
    \A b \in Blocks :
        /\ readResult[b] \in {"valid", "unreadable"}
                => SampleFull(b) \/ SampleUnavailable(b)
        /\ readResult[b] = "unreadable"
                => SampleUnavailable(b) /\ (pc = "raised" => idx # b)

\* C7: a device whose record could not be read in this cycle puts no line
\* into the buffer in this cycle, and does not end the loop.
C7_UnreadableSkipped ==
    \A b \in Blocks :
        readResult[b] = "unreadable"
            => /\ contributed[b] = 0
               /\ (pc = "raised" => idx # b)

\* C8: a readable record with a field that is no integer makes collect
\* raise ValueError, and that collect is the last call the loop makes: no
\* sendto, no flush, no further cycle; a loop that has ended was never ended
\* by an unreadable or a valid record.
C8_CorruptIsFatal ==
    /\ \A b \in Blocks :
        readResult[b] = "garbled"
            => /\ pc = "raised"
               /\ exc = "ValueError"
               /\ idx = b
               /\ trace[Len(trace)] = <<"collect", b>>
    /\ pc = "raised" => readResult[idx] \in {"garbled", "short"}
    /\ (pc = "raised") = (exc # "none")

C8_Witness ==
    /\ pc = "raised"
    /\ exc = "ValueError"
    /\ cycle = 2
    /\ idx = 2
    /\ readResult[1] = "unreadable"
    /\ _messages # <<>>

\* C9: in networked mode every line ever put is, in put order, either in a
\* payload the server received or still in the buffer behind them: a failed
\* flush drops and reorders nothing, later lines go behind the kept ones.
C9_Retention ==
    outform = "graphite" => allPut = Flatten(wire) \o LinesOf(_messages)

C9_Witness ==
    /\ outform = "graphite"
    /\ pc = "sleep"
    /\ cycle >= 2
    /\ Len(wire) = 1
    /\ LinesOf(wire[1]) = allPut
    /\ Len(allPut) > NumBlocks * NumStatTypes

\* C10: the calls of the loop come in the fixed order collect 1..n,
\* sendto 1..n, flush, return of flush, sleep, cycle after cycle, and while
\* a flush runs the buffer is only ever what it was at the call or empty.
CycleLen == 2 * nblocks + 3

CanonEvent(k) ==
    LET p == (k - 1) % CycleLen
    IN  IF p < nblocks THEN <<"collect", p + 1>>
        ELSE IF p < 2 * nblocks THEN <<"sendto", p - nblocks + 1>>
        ELSE IF p = 2 * nblocks THEN <<"flush", 0>>
        ELSE IF p = 2 * nblocks + 1 THEN <<"return", 0>>
        ELSE <<"sleep", 0>>

C10_PhaseOrder ==
    /\ \A k \in 1..Len(trace) : trace[k] = CanonEvent(k)
    /\ InFlush => /\ trace[Len(trace)] = <<"flush", 0>>
                  /\ _messages \in {before, clear}
    /\ Len(trace) <= (cycle - 1) * CycleLen + CycleLen - 1

C10_Witness ==
    /\ cycle = 2
    /\ pc = "sendto"
    /\ nblocks = NumBlocks
    /\ idx = nblocks
    /\ Len(trace) = CycleLen + 2 * nblocks - 1

\* the text that joins lines by single newlines
RECURSIVE Joined(_)
Joined(ls) ==
    IF ls = <<>> THEN <<>>
    ELSE IF Len(ls) = 1 THEN <<ls[1]>>
    ELSE <<ls[1], NL>> \o Joined(Tail(ls))

Delivered == IF outform = "human" THEN Flatten(stdout) ELSE Flatten(wire)

Pending == SubSeq(allPut, Len(Delivered) + 1, Len(allPut))

\* C12: the buffer is always the lines put since it was last cleared,
\* joined by single newlines with none in front and none behind, and it is
\* empty right after a clear.
C12_JoinedByNewlines ==
    /\ _messages = Joined(Pending)
    /\ (outform = "human" /\ pc = "sleep") => _messages = <<>>
    /\ (outform = "graphite" /\ attemptLog # <<>>
            /\ attemptLog[Len(attemptLog)].send = "ok") => _messages = <<>>

C12_Witness ==
    /\ pc = "flush"
    /\ Len(Pending) >= 2
    /\ Len(_messages) = 2 * Len(Pending) - 1
    /\ _messages[1] # NL
    /\ _messages[2] = NL
    /\ _messages[Len(_messages)] # NL

\* C13: in human mode every flush writes one batch and leaves the buffer
\* empty, so a cycle starts with an empty buffer and there is one batch per
\* finished cycle; when every record read so far was valid each batch has
\* the 11 lines of each device, in enumeration order, newline terminated,
\* and the timestamps never decrease from batch to batch.
BatchLines(k) == LinesOf(stdout[k])
LineTime(l) == l[2][2]

C13_HumanBatches ==
    outform = "human" =>
        /\ pc \in {"collect", "sleep"} => _messages = <<>>
        /\ Len(stdout) = (cycle - 1) + (IF pc = "sleep" THEN 1 ELSE 0)
        /\ allValid =>
            \A k \in 1..Len(stdout) :
                /\ Len(BatchLines(k)) = nblocks * NumStatTypes
                /\ stdout[k] = Joined(BatchLines(k)) \o <<NL>>
                /\ \A j \in 1..Len(BatchLines(k)) :
                    /\ BatchLines(k)[j][1] = "human"
                    /\ BatchLines(k)[j][3] = ((j - 1) \div NumStatTypes) + 1
                    /\ BatchLines(k)[j][4] = StatName[((j - 1) % NumStatTypes) + 1]
                    /\ LineTime(BatchLines(k)[j]) > 0
                    /\ k > 1 => LineTime(BatchLines(k - 1)[j])
                                    <= LineTime(BatchLines(k)[j])

C13_Witness ==
    /\ outform = "human"
    /\ nblocks = 1
    /\ allValid
    /\ pc = "sleep"
    /\ Len(stdout) >= 2
    /\ Len(BatchLines(2)) = NumStatTypes

\* C14: what an attempt hands to sendall is the buffer as it was when flush
\* was called followed by one newline, so every line in it is followed by a
\* newline; until a send succeeds the buffer inside flush is that content.
C14_PayloadFraming ==
    /\ \A i \in 1..Len(attemptLog) :
        attemptLog[i].send # "none" =>
            LET sent == attemptLog[i].sent
            IN  /\ sent = before \o <<NL>>
                /\ \A q \in 1..Len(sent) :
                    sent[q] # NL => (q < Len(sent) /\ sent[q + 1] = NL)
    /\ (InFlush /\ \A i \in 1..Len(attemptLog) : attemptLog[i].send # "ok")
            => _messages = before

C14_Witness ==
    /\ pc = "sleep"
    /\ Len(attemptLog) = MaxAttempts
    /\ attemptLog[1].conn = "fail"
    /\ attemptLog[2].send = "fail"
    /\ Len(attemptLog[2].sent) > NumStatTypes
    /\ _messages = before

\* C16: in networked mode, once the server accepts every connect and send,
\* each flush call that starts leads to a state in which the buffer is empty
\* and every line ever put, the ones kept from failed flushes included, has
\* been received by the server in put order.
AllDelivered == _messages = <<>> /\ allPut = Flatten(wire)

C16_EventualDelivery ==
    (outform = "graphite" /\ healed /\ pc = "flush") ~> AllDelivered

C16_Witness ==
    /\ outform = "graphite"
    /\ healed
    /\ pc = "sleep"
    /\ cycle >= 2
    /\ nsock >= 2
    /\ Len(wire) = 1
    /\ AllDelivered
    /\ Len(allPut) > nblocks * NumStatTypes

\* C11: a record of 11 integers, laid out with any leading, trailing and
\* repeated whitespace, gives a sample with exactly the eleven StatType keys
\* in enumeration order, the value of type t being field number t, whatever
\* the sample held before.
C11_RecordParsing ==
    unit.done =>
        /\ unit.result.exc = "none"
        /\ unit.result.time = now
        /\ Len(unit.result.stats) = NumStatTypes
        /\ DictKeys(unit.result.stats) = StatType
        /\ \A p \in 1..NumStatTypes :
            unit.result.stats[p] = <<p - 1, unit.fields[p]>>

C11_Witness ==
    /\ unit.done
    /\ unit.fields = Descending
    /\ unit.prior # <<>>
    /\ IsWs(unit.text[1])
    /\ IsWs(unit.text[2])
    /\ IsWs(unit.text[Len(unit.text)])
    /\ Len(unit.text) = 12 * MaxPad + NumStatTypes
    /\ unit.result.stats[1] = <<0, 10>>

(* ------------------------------------------------- startup and stopping *)
SetupExits == {"pid_exists", "pid_dir", "pid_write"}
ConfigExits == {"opt_block", "opt_pidfile", "opt_output", "opt_port",
                "no_server", "no_blocks"}
SignalExits == {"SIGINT", "FileNotFoundError"}
BeforeFork == {"parse_opts", "set_default_opts", "construct", "fork"}
Startup == BeforeFork \cup {"signal", "pid_check", "pid_write"}
NothingSent ==
    /\ trace = <<>>
    /\ allPut = <<>>
    /\ _messages = clear
    /\ transport = <<>>
    /\ wire = <<>>
    /\ stdout = <<>>

\* C15: with a PID file configured that exists, whose directory is missing
\* or that cannot be written, the process never collects and a run that is
\* not stopped by a signal ends with status 1 and nothing collected, put or
\* flushed; an invalid configuration ends with status 2 the same way; once a
\* collection has begun neither exit happens.
C15_SetupBeforeCollection ==
    /\ exitBy \in SetupExits => status[self] = 1 /\ NothingSent
    /\ exitBy \in ConfigExits => status[self] = 2 /\ NothingSent
    /\ (_pidfile # "None" /\ env0 # "ok") =>
          /\ NothingSent
          /\ pc \in Startup \cup {"exited"}
          /\ (pc = "exited" /\ exitBy \notin SignalExits \cup ConfigExits) =>
                exitBy \in SetupExits /\ status[self] = 1
    /\ trace # <<>> => exitBy \notin SetupExits \cup ConfigExits

C15_Witness ==
    /\ pc = "exited"
    /\ exitBy = "pid_exists"
    /\ env0 = "exists"
    /\ _pidfile = PidPath
    /\ status[self] = 1
    /\ self \in handler

\* C17: a stop by SIGINT is clean (status 0, no error out of the handler),
\* the PID file it removes is one this process wrote, and a PID file another
\* instance left at startup stays.
C17_PidOwnership ==
    /\ exitBy \in SignalExits => exitBy = "SIGINT" /\ status[self] = 0
    /\ removed # 0 => removed = self
    /\ env0 = "exists" => fs_pid = OtherPid

\* C18: a GraphiteBuffer is only constructed with a server that is not None
\* and an integer port, 2003 unless the command line gave one; graphite
\* output asked for without a server ends with status 2 and no buffer; with
\* neither option the output form is human.
PortGiven(a) == a.server # <<NoneTok>> /\ Colon \in {a.server[i] : i \in 1..Len(a.server)}
C18_NetworkedHasDestination ==
    /\ buffer = "GraphiteBuffer" =>
          /\ _server # "None"
          /\ argv.server # <<NoneTok>>
          /\ IntOk(_server_port)
          /\ ~PortGiven(argv) => _server_port = IntTok(DefaultPort)
          /\ PortGiven(argv) => _server_port = argv.server[Len(argv.server)]
    /\ (argv.output = "graphite" /\ argv.server = <<NoneTok>>
            /\ pc \notin {"parse_opts", "set_default_opts"}) =>
          /\ pc = "exited"
          /\ status[self] = 2
          /\ buffer = "None"
    /\ (argv.output = "None" /\ argv.server = <<NoneTok>>
            /\ pc \notin {"parse_opts", "set_default_opts"}
            /\ exitBy \notin ConfigExits) =>
          /\ outform = "human"
          /\ buffer \in {"None", "StdoutBuffer"}

C18_Witness ==
    /\ buffer = "GraphiteBuffer"
    /\ argv.output = "None"
    /\ ~PortGiven(argv)
    /\ _server = "host"
    /\ _server_port = IntTok(DefaultPort)
    /\ attemptLog # <<>>

\* C19: with daemonize there is one fork, the parent ends with status 0
\* having installed no handler, written no PID file and collected nothing,
\* and the child does all three, the PID file holding the child's pid;
\* without daemonize there is no fork and the started process does them.
C19_ForkOnce ==
    LET worker == IF argv.daemonize THEN ChildPid ELSE ParentPid
        forked == pc \notin BeforeFork /\ exitBy \notin ConfigExits
    IN  /\ nfork = (IF forked /\ argv.daemonize THEN 1 ELSE 0)
        /\ handler \subseteq {worker}
        /\ fs_pid \in {0, OtherPid, worker}
        /\ removed \in {0, OtherPid, worker}
        /\ forked => self = worker
        /\ (forked /\ argv.daemonize) => status[ParentPid] = 0
        /\ ~(forked /\ argv.daemonize) => status[ChildPid] = NoProc
        /\ trace # <<>> =>
              /\ self = worker
              /\ handler = {worker}
              /\ (_pidfile # "None" /\ pc # "exited") => fs_pid = worker

C19_Witness ==
    /\ argv.daemonize
    /\ nfork = 1
    /\ status[ParentPid] = 0
    /\ status[ChildPid] = Running
    /\ handler = {ChildPid}
    /\ fs_pid = ChildPid
    /\ pc = "sleep"
    /\ cycle = 2

====
